---- MODULE Spec2Model ----
(***************************************************************************)
(* Model of sorting_algs.py: the two coordinate-clustering routines        *)
(* sort_features_A (reading order) and sort_features_B (fixed grid).       *)
(*                                                                         *)
(* A Feature object is a record [id, x, y].  `id` stands for the Python    *)
(* object identity (what id(f) returns); the text field is never read by   *)
(* either routine and is left out.  Two different objects may carry the    *)
(* same coordinates, and one object may occur several times in a list.     *)
(* Python's None and optional values are sequences of length at most one:  *)
(* None is << >> and a present value v is <<v>>.                           *)
(***************************************************************************)
EXTENDS Integers, Sequences, FiniteSets

\* ---------------------------------------------------------------- bounds
MaxLen == 3
MaxRows == 2
MaxCols == 3

\* defaults of sort_features_A / sort_features_B
DefaultRows == 3
DefaultCols == 4
DefaultTolY == 100
DefaultTolX == 20

TolXDom == {0, 3}
TolYDom == {0, DefaultTolY}

Feature(i, px, py) == [id |-> i, x |-> px, y |-> py]

\* The objects a caller may pass: three heights (0, 90, 180), three abscissas
\* (0, 5, 15); objects 1 and 2 are two different objects with equal coordinates.
Pool ==
  { Feature(1, 0, 180), Feature(2, 0, 180), Feature(3, 5, 180),
    Feature(4, 15, 180), Feature(5, 0, 90), Feature(6, 15, 90),
    Feature(7, 5, 0) }

times_1 ==
  << Feature(1, 331, 3808),  Feature(2, 306, 2788),  Feature(3, 1734, 3816),
     Feature(4, 1718, 2780), Feature(5, 290, 1759),  Feature(6, 1710, 1743),
     Feature(7, 3171, 3818), Feature(8, 3163, 2772), Feature(9, 3154, 1733),
     Feature(10, 4599, 3793), Feature(11, 4615, 2762), Feature(12, 4607, 1725) >>

numbers_1 ==
  << Feature(1, 132, 3736),  Feature(2, 107, 2723),  Feature(3, 1519, 3744),
     Feature(4, 1511, 2714), Feature(5, 83, 1685),   Feature(6, 1494, 1668),
     Feature(7, 2963, 3752), Feature(8, 2947, 2698), Feature(9, 2939, 1668),
     Feature(10, 4400, 2698), Feature(11, 4400, 1643) >>

\* ---------------------------------------------------------------- helpers
None == << >>
Some(v) == <<v>>

Abs(n) == IF n < 0 THEN -n ELSE n
Max(a, b) == IF a >= b THEN a ELSE b
Min(a, b) == IF a <= b THEN a ELSE b

RECURSIVE Flatten(_)
\* [f for row in rows for f in row]
Flatten(ss) ==
  IF ss = << >> THEN << >> ELSE Head(ss) \o Flatten(Tail(ss))

\* Python's seq[:n], n of either sign
SliceTo(s, n) ==
  IF n >= 0 THEN SubSeq(s, 1, Min(n, Len(s)))
  ELSE SubSeq(s, 1, Max(Len(s) + n, 0))

\* sorted(s, key=lambda f: f.x): stable, ascending
InsertByX(r, f) ==
  LET k == Cardinality({i \in 1..Len(r) : r[i].x <= f.x})
  IN  SubSeq(r, 1, k) \o <<f>> \o SubSeq(r, k + 1, Len(r))

RECURSIVE SortByX(_)
SortByXIdentity(s) == s
SortByX(s) ==
  IF s = << >> THEN << >>
  ELSE InsertByX(SortByX(SubSeq(s, 1, Len(s) - 1)), s[Len(s)])

\* sorted(s, key=lambda f: f.y, reverse=True): stable, descending
InsertByYDesc(r, f) ==
  LET k == Cardinality({i \in 1..Len(r) : r[i].y >= f.y})
  IN  SubSeq(r, 1, k) \o <<f>> \o SubSeq(r, k + 1, Len(r))

InsertByYAsc(r, f) ==
  LET k == Cardinality({i \in 1..Len(r) : r[i].y <= f.y})
  IN  SubSeq(r, 1, k) \o <<f>> \o SubSeq(r, k + 1, Len(r))

RECURSIVE SortByYAsc(_)
SortByYAsc(s) ==
  IF s = << >> THEN << >>
  ELSE InsertByYAsc(SortByYAsc(SubSeq(s, 1, Len(s) - 1)), s[Len(s)])

RECURSIVE SortByYDesc(_)
SortByYDesc(s) ==
  IF s = << >> THEN << >>
  ELSE InsertByYDesc(SortByYDesc(SubSeq(s, 1, Len(s) - 1)), s[Len(s)])

\* ------------------------------------------------------- sort_features_A
\* abs(f.y - current_y) <= tol
JoinsRowStrict(fy, cy, tol) == Abs(fy - cy) < tol
JoinsRow(fy, cy, tol) == Abs(fy - cy) <= tol

\* One iteration of the loop of sort_features_A over features_sorted.
LoopBodyARunning(st, f, tol) ==
  IF st.current_y = None
    THEN [rows |-> st.rows, current_row |-> Append(st.current_row, f),
          current_y |-> Some(f.y)]
  ELSE IF JoinsRow(f.y, st.current_y[1], tol)
    THEN [rows |-> st.rows, current_row |-> Append(st.current_row, f),
          current_y |-> Some(f.y)]
  ELSE [rows |-> Append(st.rows, SortByX(st.current_row)),
        current_row |-> <<f>>, current_y |-> Some(f.y)]

LoopBodyA(st, f, tol) ==
  IF st.current_y = None
    THEN [rows |-> st.rows, current_row |-> Append(st.current_row, f),
          current_y |-> Some(f.y)]
  ELSE IF JoinsRow(f.y, st.current_y[1], tol)
    THEN [rows |-> st.rows, current_row |-> Append(st.current_row, f),
          current_y |-> st.current_y]
  ELSE [rows |-> Append(st.rows, SortByX(st.current_row)),
        current_row |-> <<f>>, current_y |-> Some(f.y)]

RECURSIVE LoopA(_, _, _)
LoopA(st, fs, tol) ==
  IF fs = << >> THEN st ELSE LoopA(LoopBodyA(st, Head(fs), tol), Tail(fs), tol)

\* the trailing "if current_row:" of sort_features_A
FlushANoFlush(st) == st.rows
FlushA(st) ==
  IF st.current_row # << >> THEN Append(st.rows, SortByX(st.current_row))
  ELSE st.rows

\* rows as sort_features_A has them before flattening
RowsA(fs, tol) ==
  FlushA(LoopA([rows |-> << >>, current_row |-> << >>, current_y |-> None],
               SortByYDesc(fs), tol))

sort_features_A(fs, tol) == Flatten(RowsA(fs, tol))

\* ------------------------------------------------------- sort_features_B
\* One iteration of the grouping loop of sort_features_B.
LoopBodyB(st, f, tol) ==
  IF st.current_y = None \/ JoinsRow(f.y, st.current_y[1], tol)
    THEN [rows |-> st.rows, current_row |-> Append(st.current_row, f),
          current_y |-> IF st.current_y = None THEN Some(f.y) ELSE st.current_y]
  ELSE [rows |-> Append(st.rows, st.current_row),
        current_row |-> <<f>>, current_y |-> Some(f.y)]

RECURSIVE LoopB(_, _, _)
LoopB(st, fs, tol) ==
  IF fs = << >> THEN st ELSE LoopB(LoopBodyB(st, Head(fs), tol), Tail(fs), tol)

\* rows as sort_features_B has them after step 2 (not yet sorted by x)
RowsB(fs, tol) ==
  LET st == LoopB([rows |-> << >>, current_row |-> << >>, current_y |-> None],
                  SortByYDesc(fs), tol)
  IN  IF st.current_row # << >> THEN Append(st.rows, st.current_row) ELSE st.rows

\* step 3: trim or add empty rows
NormalizeRowsFromEnd(rs, expected_rows) ==
  IF Len(rs) > expected_rows
    THEN SubSeq(rs, Len(rs) - Max(expected_rows, 0) + 1, Len(rs))
  ELSE IF Len(rs) < expected_rows
    THEN rs \o [i \in 1..(expected_rows - Len(rs)) |-> << >>]
  ELSE rs

NormalizeRows(rs, expected_rows) ==
  IF Len(rs) > expected_rows THEN SliceTo(rs, expected_rows)
  ELSE IF Len(rs) < expected_rows
    THEN rs \o [i \in 1..(expected_rows - Len(rs)) |-> << >>]
  ELSE rs

\* expected_positions of one row.  A position is None or an exact fraction
\* num/den with den > 0: Python computes min_x + i * step in floating point,
\* and for the integer coordinates and column counts used here the comparison
\* abs(f.x - exp_x) <= tol_x has the same outcome on the exact value.
\* The result is [raised, value]; raised is "ZeroDivisionError" when the
\* division by expected_cols - 1 is a division by zero.
ExpectedPositionsOffByOne(row_sorted, expected_cols) ==
  LET n == Max(expected_cols, 0)
  IN
  IF row_sorted = << >>
    THEN [raised |-> "none", value |-> [i \in 1..n |-> None]]
  ELSE
    LET min_x == row_sorted[1].x
        max_x == row_sorted[Len(row_sorted)].x
    IN  IF Len(row_sorted) = 1
          THEN [raised |-> "none",
                value |-> [i \in 1..n |-> Some([num |-> min_x, den |-> 1])]]
        ELSE IF expected_cols = 0
          THEN [raised |-> "ZeroDivisionError", value |-> << >>]
        ELSE
          LET d == expected_cols
              s == IF d < 0 THEN -1 ELSE 1
          IN  [raised |-> "none",
               value |-> [i \in 1..n |->
                 Some([num |-> s * (min_x * d + (i - 1) * (max_x - min_x)),
                       den |-> s * d])]]

ExpectedPositions(row_sorted, expected_cols) ==
  LET n == Max(expected_cols, 0)
  IN
  IF row_sorted = << >>
    THEN [raised |-> "none", value |-> [i \in 1..n |-> None]]
  ELSE
    LET min_x == row_sorted[1].x
        max_x == row_sorted[Len(row_sorted)].x
    IN  IF Len(row_sorted) = 1
          THEN [raised |-> "none",
                value |-> [i \in 1..n |-> Some([num |-> min_x, den |-> 1])]]
        ELSE IF expected_cols - 1 = 0
          THEN [raised |-> "ZeroDivisionError", value |-> << >>]
        ELSE
          LET d == expected_cols - 1
              s == IF d < 0 THEN -1 ELSE 1
          IN  [raised |-> "none",
               value |-> [i \in 1..n |->
                 Some([num |-> s * (min_x * d + (i - 1) * (max_x - min_x)),
                       den |-> s * d])]]

\* abs(f.x - exp_x) <= tol_x
WithinTolX(f, e, tol_x) == Abs(f.x * e.den - e.num) <= tol_x * e.den

\* "if id(f) in used: continue"
IsUsedNever(f, used) == FALSE
IsUsed(f, used) == f.id \in used

\* the inner "for f in row_sorted" scan: index of the feature found, 0 if none
FindFeature(row_sorted, used, exp_x, tol_x) ==
  LET ok == {k \in 1..Len(row_sorted) :
               /\ ~IsUsed(row_sorted[k], used)
               /\ WithinTolX(row_sorted[k], exp_x[1], tol_x)}
  IN  IF exp_x = None \/ ok = {} THEN 0
      ELSE CHOOSE k \in ok : \A j \in ok : k <= j

RECURSIVE MatchColumns(_, _, _, _, _)
\* the "for exp_x in expected_positions" loop; acc is new_row
MatchColumns(row_sorted, exps, used, acc, tol_x) ==
  IF exps = << >> THEN acc
  ELSE
    LET k == FindFeature(row_sorted, used, Head(exps), tol_x)
    IN  IF k = 0
          THEN MatchColumns(row_sorted, Tail(exps), used, Append(acc, None), tol_x)
        ELSE MatchColumns(row_sorted, Tail(exps), used \cup {row_sorted[k].id},
                          Append(acc, Some(row_sorted[k])), tol_x)

\* "while len(new_row) < expected_cols: new_row.append(None)"
PadRow(new_row, expected_cols) ==
  IF Len(new_row) < expected_cols
    THEN new_row \o [i \in 1..(expected_cols - Len(new_row)) |-> None]
  ELSE new_row

\* step 4 for one row
AlignRow(row, expected_cols, tol_x) ==
  LET row_sorted == SortByX(row)
      ep == ExpectedPositions(row_sorted, expected_cols)
  IN  IF ep.raised # "none" THEN [raised |-> ep.raised, value |-> << >>]
      ELSE [raised |-> "none",
            value |-> PadRow(MatchColumns(row_sorted, ep.value, {}, << >>, tol_x),
                             expected_cols)]

\* the whole call: [raised, value]; value is flat_list when nothing was raised
sort_features_B(fs, expected_rows, expected_cols, tol_y, tol_x) ==
  LET rs == NormalizeRows(RowsB(fs, tol_y), expected_rows)
      grid == [r \in 1..Len(rs) |-> AlignRow(rs[r], expected_cols, tol_x)]
  IN  IF \E r \in 1..Len(rs) : grid[r].raised # "none"
        THEN [raised |-> "ZeroDivisionError", value |-> << >>]
      ELSE [raised |-> "none",
            value |-> Flatten([r \in 1..Len(rs) |-> grid[r].value])]

\* ---------------------------------------------------------- state machine
VARIABLES features, tol_y, tol_x, expected_rows, expected_cols,
          pc, rows, result, raised

vars == <<features, tol_y, tol_x, expected_rows, expected_cols,
          pc, rows, result, raised>>

Lists == UNION {[1..n -> Pool] : n \in 0..MaxLen}

Init ==
  /\ \/ /\ features \in Lists
        /\ tol_y \in TolYDom
        /\ tol_x \in TolXDom
        /\ expected_rows \in -1..MaxRows
        /\ expected_cols \in -1..MaxCols
     \/ /\ features \in {times_1, numbers_1}
        /\ tol_y = DefaultTolY
        /\ tol_x = DefaultTolX
        /\ expected_rows = DefaultRows
        /\ expected_cols = DefaultCols
  /\ pc = "ready"
  /\ rows = << >>
  /\ result = << >>
  /\ raised = "none"

\* a call sort_features_A(features, tol_y)
CallA ==
  /\ pc = "ready"
  /\ pc' = "doneA"
  /\ rows' = RowsA(features, tol_y)
  /\ result' = sort_features_A(features, tol_y)
  /\ raised' = "none"
  /\ UNCHANGED <<features, tol_y, tol_x, expected_rows, expected_cols>>

\* a call sort_features_B(features, expected_rows, expected_cols, tol_y, tol_x)
CallB ==
  /\ pc = "ready"
  /\ pc' = "doneB"
  /\ rows' = RowsB(features, tol_y)
  /\ LET r == sort_features_B(features, expected_rows, expected_cols, tol_y, tol_x)
     IN  /\ result' = r.value
         /\ raised' = r.raised
  /\ UNCHANGED <<features, tol_y, tol_x, expected_rows, expected_cols>>

Next == CallA \/ CallB

Spec == Init /\ [][Next]_vars

\* ------------------------------------------------------------ properties
Range(s) == {s[i] : i \in DOMAIN s}
Count(s, v) == Cardinality({i \in DOMAIN s : s[i] = v})
Ys(s) == {s[i].y : i \in DOMAIN s}
MaxY(row) == CHOOSE m \in Ys(row) : \A v \in Ys(row) : v <= m
InRow(f, r) == r \in DOMAIN rows /\ f \in Range(rows[r])
SameRow(f, g) == \E r \in DOMAIN rows : InRow(f, r) /\ InRow(g, r)
ValidGrid == expected_rows >= 1 /\ expected_cols >= 1
EmptyCells == {n \in DOMAIN result : result[n] = None}
\* grid row (1-based) of flat index n
GridRowOf(n) == ((n - 1) \div expected_cols) + 1
GridColOf(n) == ((n - 1) % expected_cols) + 1

\* C1: for expected_rows >= 1 and expected_cols >= 1, sort_features_B raises
\* nothing and returns exactly expected_rows * expected_cols elements.
C1_GridShape ==
  (pc = "doneB" /\ ValidGrid) =>
    (raised = "none" /\ Len(result) = expected_rows * expected_cols)

\* C2: sort_features_A returns a permutation of its input: same length, and
\* every Feature object occurs as often in the output as in the input.
C2_Permutation ==
  pc = "doneA" =>
    /\ raised = "none"
    /\ Len(result) = Len(features)
    /\ \A f \in Range(features) \cup Range(result) :
         Count(result, f) = Count(features, f)

C2_Witness ==
  /\ pc = "doneA"
  /\ Len(features) >= 3
  /\ result # features
  /\ \E i, j \in DOMAIN features : i < j /\ features[i] = features[j]

\* C3 as stated: any two Features of the input with |y1 - y2| <= tol_y are
\* placed in the same row by the row-clustering pass.
C3_Original ==
  pc # "ready" =>
    \A i, j \in DOMAIN features :
      Abs(features[i].y - features[j].y) <= tol_y
        => SameRow(features[i], features[j])

\* C3 amended: two Features with |y1 - y2| <= tol_y are placed in the same row
\* or in two consecutive rows, and in the same row whenever the higher of the
\* two has the y of its row's anchor (the row's highest y).
C3_Amended ==
  pc # "ready" =>
    \A i, j \in DOMAIN features :
      LET f == features[i]
          g == features[j]
      IN  (f.y >= g.y /\ f.y - g.y <= tol_y) =>
            \E r \in DOMAIN rows :
              /\ InRow(f, r)
              /\ InRow(g, r) \/ InRow(g, r + 1)
              /\ f.y = MaxY(rows[r]) => InRow(g, r)

C3_Witness ==
  /\ pc # "ready"
  /\ tol_y > 0
  /\ \E i, j \in DOMAIN features :
       /\ features[i].y > features[j].y
       /\ features[i].y - features[j].y <= tol_y
       /\ \E r \in DOMAIN rows :
            InRow(features[i], r) /\ InRow(features[j], r + 1)
  /\ \E i, j \in DOMAIN features :
       /\ features[i].y > features[j].y
       /\ SameRow(features[i], features[j])

\* the case of C4: tol_y = 100 and three Features at y = 0, 90, 180
ChainCase ==
  /\ pc # "ready"
  /\ tol_y = 100
  /\ Len(features) = 3
  /\ Ys(features) = {0, 90, 180}

\* C4 as stated: with tol_y = 100, Features at y = 0, 90, 180 are all clustered
\* into one single row, in any input order.
C4_Original == ChainCase => Len(rows) = 1

\* C4 amended: with tol_y = 100, Features at y = 0, 90, 180 are clustered into
\* two rows, the first holding y = 180 and y = 90 and the second y = 0, in any
\* input order.
C4_Amended ==
  ChainCase =>
    /\ Len(rows) = 2
    /\ Ys(rows[1]) = {180, 90} /\ Len(rows[1]) = 2
    /\ Ys(rows[2]) = {0} /\ Len(rows[2]) = 1

C4_Witness == ChainCase /\ pc = "doneA" /\ features[1].y = 0 /\ features[2].y = 180

\* C5: in the output of sort_features_A the rows are contiguous blocks, in
\* clustering order (descending anchor y), and inside a row x never decreases.
C5_RowsLeftToRight ==
  pc = "doneA" =>
    /\ result = Flatten(rows)
    /\ \A r \in DOMAIN rows :
         /\ rows[r] # << >>
         /\ \A a, b \in DOMAIN rows[r] : a < b => rows[r][a].x <= rows[r][b].x
    /\ \A r, q \in DOMAIN rows : r < q => MaxY(rows[r]) > MaxY(rows[q])
    /\ \A m, n \in DOMAIN result :
         m < n =>
           \/ SameRow(result[m], result[n]) /\ result[m].x <= result[n].x
           \/ \E r, q \in DOMAIN rows :
                r < q /\ InRow(result[m], r) /\ InRow(result[n], q)

C5_Witness ==
  /\ pc = "doneA"
  /\ Len(rows) >= 2
  /\ \E r \in DOMAIN rows : Len(rows[r]) >= 2 /\ rows[r][1].x < rows[r][2].x
  /\ result # features

\* the call of C6: numbers_1 aligned to the default 3 x 4 grid
Numbers1Call ==
  /\ pc = "doneB"
  /\ features = numbers_1
  /\ expected_rows = 3 /\ expected_cols = 4
  /\ tol_y = 100 /\ tol_x = 20

Times1Call == pc = "doneA" /\ features = times_1 /\ tol_y = 100

Times1Order ==
  result = << times_1[1], times_1[3], times_1[7], times_1[10],
              times_1[2], times_1[4], times_1[8], times_1[11],
              times_1[5], times_1[6], times_1[9], times_1[12] >>

\* C7 as stated: times_1 yields 4 rows of 3 columns each, the y~3808 row first
\* (x = 331, 1734, 3171, 4599), then the y~2780 row, then the y~1725 row.
C7_Original ==
  Times1Call =>
    /\ Len(rows) = 4
    /\ \A r \in DOMAIN rows : Len(rows[r]) = 3
    /\ Times1Order

\* C7 amended: times_1 yields 3 rows of 4 columns each, the y~3808 row first
\* (x = 331, 1734, 3171, 4599), then the y~2780 row, then the y~1725 row.
C7_Amended ==
  Times1Call =>
    /\ Len(rows) = 3
    /\ \A r \in DOMAIN rows : Len(rows[r]) = 4
    /\ Times1Order
    /\ [n \in 1..4 |-> result[n].x] = <<331, 1734, 3171, 4599>>

C7_Witness == Times1Call /\ Len(result) = 12

\* C8: with a non-positive expected_rows or expected_cols, sort_features_B
\* fails with an invalid-argument error and returns no grid.
C8_FailFast ==
  (pc = "doneB" /\ ~ValidGrid) => raised = "InvalidArgument"

\* C9: trimming and padding keep the clustering order: a non-empty cell of
\* grid row r holds a Feature of the r-th clustered row, no Feature of a
\* trimmed row is in the output, and padded grid rows are empty.
C9_RowNormalization ==
  (pc = "doneB" /\ raised = "none" /\ ValidGrid) =>
    /\ Len(result) = expected_rows * expected_cols
    /\ \A n \in DOMAIN result :
         result[n] # None =>
           /\ GridRowOf(n) <= Len(rows)
           /\ InRow(result[n][1], GridRowOf(n))
    /\ \A r \in DOMAIN rows :
         r > expected_rows =>
           \A f \in Range(rows[r]) : \A n \in DOMAIN result : result[n] # Some(f)
    /\ \A n \in DOMAIN result : GridRowOf(n) > Len(rows) => result[n] = None

C9_Witness ==
  /\ pc = "doneB" /\ raised = "none" /\ ValidGrid
  /\ Len(rows) > expected_rows
  /\ expected_rows >= 2
  /\ \A r \in 1..expected_rows :
       \E n \in DOMAIN result : GridRowOf(n) = r /\ result[n] # None

C9_WitnessPadded ==
  /\ pc = "doneB" /\ raised = "none" /\ ValidGrid
  /\ Len(rows) >= 1
  /\ Len(rows) < expected_rows
  /\ \E n \in DOMAIN result : result[n] # None

\* C10: a non-empty cell of grid row r holds a Feature of the r-th clustered
\* row that lies within tol_x of the cell's expected position, and no Feature
\* object occupies two cells.
C10_CellsFromOwnRowOnce ==
  (pc = "doneB" /\ raised = "none") =>
    /\ \A n \in DOMAIN result :
         result[n] # None =>
           /\ InRow(result[n][1], GridRowOf(n))
           /\ LET ep == ExpectedPositions(SortByX(rows[GridRowOf(n)]), expected_cols)
              IN  WithinTolX(result[n][1], ep.value[GridColOf(n)][1], tol_x)
    /\ \A m, n \in DOMAIN result :
         (m # n /\ result[m] # None /\ result[n] # None)
           => result[m][1].id # result[n][1].id

C10_Witness ==
  /\ pc = "doneB" /\ raised = "none" /\ ValidGrid
  /\ Len(rows) >= 1
  /\ Len(rows[1]) >= 3
  /\ \E n \in DOMAIN result : result[n] # None /\ GridColOf(n) = 2
  /\ \E f \in Range(rows[1]) : \A n \in DOMAIN result : result[n] # Some(f)

====
